---- MODULE Spec2Model ----
(***************************************************************************)
(* Model of the GitHub Action "project-closed-issue-move-to-top-action":   *)
(* the entry point (src/src/index.ts and its variant src/unnamed/part_000) *)
(* and run() with its five GraphQL helpers (src/src/run.ts), together with *)
(* the remote project board the GraphQL calls read and write.              *)
(*                                                                         *)
(* Every `await octokit.graphql(...)` is two steps: the call is issued     *)
(* (XxxCall) and, later, the remote answers and the continuation of the    *)
(* awaiting function runs (XxxReturn).  The remote acts on the board at    *)
(* the moment it answers.                                                  *)
(***************************************************************************)
EXTENDS Integers, Sequences, FiniteSets, TLC

\* JavaScript null / undefined.
NULL == "<null>"

\* `!v` for the string-or-undefined values the code tests (run.ts:61, 106, 138).
Falsy(v) == v = NULL \/ v = ""

(***************************************************************************)
(* The remote: owners, projects, fields, memberships.                      *)
(***************************************************************************)

\* organization(login:){ projectV2(number:){ id } }: acme is an organization
\* owning project 1 (PVT_1) and project 2 (PVT_3).
OrgProject(login, number) ==
    IF login = "acme" /\ number = 1 THEN "PVT_1"
    ELSE IF login = "acme" /\ number = 2 THEN "PVT_3"
    ELSE NULL

\* user(login:){ projectV2(number:){ id } }: alice is an individual account
\* owning project 1 (PVT_2).  "ghost" is neither.
UserProject(login, number) ==
    IF login = "alice" /\ number = 1 THEN "PVT_2" ELSE NULL

Projects == {"PVT_1", "PVT_2", "PVT_3"}

Membership(i, p) == [id |-> i, project |-> p]

\* Issue.projectItems: the project memberships of each issue, in the order
\* the remote lists them.  I_many is linked to eleven projects, PVT_1 last.
ProjectItemsOf(issue) ==
    IF issue = "I_a" THEN
        << Membership("PVTI_a2", "PVT_2"), Membership("PVTI_a1", "PVT_1") >>
    ELSE IF issue = "I_b" THEN
        << Membership("PVTI_b1", "PVT_1"), Membership("PVTI_b3", "PVT_3") >>
    ELSE IF issue = "I_many" THEN
        << Membership("PVTI_f01", "PVT_f01"), Membership("PVTI_f02", "PVT_f02"),
           Membership("PVTI_f03", "PVT_f03"), Membership("PVTI_f04", "PVT_f04"),
           Membership("PVTI_f05", "PVT_f05"), Membership("PVTI_f06", "PVT_f06"),
           Membership("PVTI_f07", "PVT_f07"), Membership("PVTI_f08", "PVT_f08"),
           Membership("PVTI_f09", "PVT_f09"), Membership("PVTI_f10", "PVT_f10"),
           Membership("PVTI_m1", "PVT_1") >>
    ELSE << >>

\* The items whose field values and board position the model tracks.
Items == {"PVTI_a1", "PVTI_b1", "PVTI_m1", "PVTI_a2", "PVTI_b3"}

ProjectOfItem(i) ==
    IF i \in {"PVTI_a1", "PVTI_b1", "PVTI_m1"} THEN "PVT_1"
    ELSE IF i = "PVTI_a2" THEN "PVT_2"
    ELSE IF i = "PVTI_b3" THEN "PVT_3"
    ELSE NULL

Option(i, n) == [id |-> i, name |-> n]

NoField == [id |-> NULL, options |-> << >>]

\* ProjectV2.field(name: "Status") as a single-select field: PVT_1 has the
\* options Todo / In Progress / Done, PVT_2 only In Progress, PVT_3 has no
\* such field.
StatusFieldOf(project) ==
    IF project = "PVT_1" THEN
        [id |-> "F1", options |-> << Option("O_todo", "Todo"),
                                     Option("O_prog", "In Progress"),
                                     Option("O_done", "Done") >>]
    ELSE IF project = "PVT_2" THEN
        [id |-> "F2", options |-> << Option("O2_prog", "In Progress") >>]
    ELSE NoField

\* The remote's comparison of an option name with a queried name in
\* options(names: [...]).  GitHub's schema documents the argument as "Filter
\* returned options to only those matching these names, case insensitive."
Lower(s) ==
    IF s \in {"Done", "done"} THEN "done"
    ELSE IF s \in {"In Progress", "in progress"} THEN "in progress"
    ELSE IF s \in {"Todo", "todo"} THEN "todo"
    ELSE s

RemoteNameMatches(optionName, queried) == Lower(optionName) = Lower(queried)

\* options(names: [$statusName]) of the field: the matching options, in order.
FilteredOptions(field, statusName) ==
    LET Matches(option) == RemoteNameMatches(option.name, statusName)
    IN  SelectSeq(field.options, Matches)

\* projectItems(first: 10)
PageSize == 10

\* Mutant: the page is not limited.
First_Unlimited(n, s) == s

First(n, s) == SubSeq(s, 1, IF Len(s) < n THEN Len(s) ELSE n)

(***************************************************************************)
(* Errors.                                                                 *)
(***************************************************************************)

\* A thrown value: an Error made by the code (message), or a rejection of
\* octokit.graphql: with an `errors` list (a GraphQL response error) or
\* without one (transport, HTTP 401, ...).
NoError == [kind |-> "none", hasErrors |-> FALSE, types |-> << >>, message |-> << >>]

CodeError(msg) ==
    [kind |-> "Error", hasErrors |-> FALSE, types |-> << >>, message |-> msg]

RemoteError(hasList, ts) ==
    [kind |-> "remote", hasErrors |-> hasList, types |-> ts, message |-> << >>]

\* What a graphql call can be rejected with.
RemoteErrors ==
    { RemoteError(FALSE, << >>),
      RemoteError(TRUE, << "NOT_FOUND" >>),
      RemoteError(TRUE, << "FORBIDDEN" >>),
      RemoteError(TRUE, << "FORBIDDEN", "NOT_FOUND" >>),
      RemoteError(TRUE, << "RATE_LIMITED" >>) }

\* run.ts:153-155
isGraphQLError(error) == error.hasErrors

\* Mutant: only the first entry of the errors list is looked at.
hasNotFoundError_FirstOnly(error) == Len(error.types) > 0 /\ error.types[1] = "NOT_FOUND"

\* run.ts:157-159
hasNotFoundError(error) == \E i \in 1..Len(error.types) : error.types[i] = "NOT_FOUND"

\* run.ts:112 and run.ts:143: the catch clauses' test.
Swallowed(error) == isGraphQLError(error) /\ hasNotFoundError(error)

\* run.ts:150
NotFoundMessage(projectNumber, organization) ==
    << "Project #", projectNumber, " not found for ", organization >>

(***************************************************************************)
(* The entry point's input handling (index.ts / part_000).                 *)
(***************************************************************************)

\* An input string is a sequence of characters.
DigitChars == << "0", "1", "2", "3", "4", "5", "6", "7", "8", "9" >>

IsDigit(c) == \E i \in 1..Len(DigitChars) : DigitChars[i] = c

DigitValue(c) == (CHOOSE i \in 1..Len(DigitChars) : DigitChars[i] = c) - 1

AllDigits(s) == \A i \in 1..Len(s) : IsDigit(s[i])

RECURSIVE DigitsValue(_)
\* The decimal value of a sequence of digits; 0 for the empty sequence.
DigitsValue(s) ==
    IF s = << >> THEN 0
    ELSE 10 * DigitsValue(SubSeq(s, 1, Len(s) - 1)) + DigitValue(s[Len(s)])

RECURSIVE Pow10(_)
Pow10(n) == IF n = 0 THEN 1 ELSE 10 * Pow10(n - 1)

NaN == [nan |-> TRUE, num |-> 0, den |-> 1]

\* JavaScript's Number(string) on signed decimal literals: the empty string is
\* 0, [+-]digits[.digits] is its value (num / den), anything else is NaN.
Number(s) ==
    IF s = << >> THEN [nan |-> FALSE, num |-> 0, den |-> 1]
    ELSE
        LET signed == s[1] \in {"-", "+"}
            body == IF signed THEN Tail(s) ELSE s
            dots == {i \in 1..Len(body) : body[i] = "."}
            d == IF dots = {} THEN Len(body) + 1 ELSE CHOOSE i \in dots : TRUE
            int == SubSeq(body, 1, d - 1)
            frac == SubSeq(body, d + 1, Len(body))
            mag == DigitsValue(int \o frac)
        IN  IF Cardinality(dots) <= 1 /\ AllDigits(int) /\ AllDigits(frac)
               /\ Len(int) + Len(frac) >= 1
            THEN [nan |-> FALSE,
                  num |-> IF s[1] = "-" THEN 0 - mag ELSE mag,
                  den |-> Pow10(Len(frac))]
            ELSE NaN

\* Number.isInteger
isInteger(v) == ~v.nan /\ v.num % v.den = 0

\* Mutant: the Number.isInteger test is left out.
RejectedProjectNumber_NoIntegerTest(v) == v.nan \/ v.num <= 0

\* index.ts:9: Number.isNaN(n) || n <= 0 || !Number.isInteger(n)
RejectedProjectNumber(v) == v.nan \/ v.num <= 0 \/ ~isInteger(v)

\* core.getInput(name, {required: true}) throws on an empty value.
RequiredMissing(name) ==
    CodeError(<< "Input required and not supplied: ", name >>)

NoInputs == [projectNumber |-> 0, organization |-> NULL, statusName |-> NULL]

\* index.ts:5-17 / part_000:5-18: the inputs handed to run(), or the error
\* thrown before run() is called.
ReadInputs(e) ==
    LET projectNumber == Number(e.projectNumberInput)
    IN  IF e.projectNumberInput = << >> THEN
            [ok |-> FALSE, error |-> RequiredMissing("project-number"), inputs |-> NoInputs]
        ELSE IF RejectedProjectNumber(projectNumber) THEN
            [ok |-> FALSE,
             error |-> CodeError(<< "project-number must be a positive integer, got: ",
                                    e.projectNumberInput >>),
             inputs |-> NoInputs]
        ELSE IF e.variant = "index" /\ e.organizationInput = "" THEN
            [ok |-> FALSE, error |-> RequiredMissing("organization"), inputs |-> NoInputs]
        ELSE
            [ok |-> TRUE, error |-> NoError,
             inputs |-> [projectNumber |-> projectNumber.num \div projectNumber.den,
                         organization |-> IF e.organizationInput = "" THEN e.repoOwner
                                          ELSE e.organizationInput,
                         statusName |-> IF e.statusNameInput = "" THEN "Done"
                                        ELSE e.statusNameInput]]

(***************************************************************************)
(* Bounds of the model: the values the environment draws inputs from.      *)
(***************************************************************************)

Variants == {"index", "part_000"}

ProjectNumberInputs ==
    { << "1" >>, << "2" >>, << "1", ".", "0" >>, << "0" >>, << "-", "1" >>,
      << "1", ".", "5" >>, << "a" >>, << >> }

OrganizationInputs == {"", "acme", "alice", "ghost"}

StatusNameInputs == {"", "done", "In Progress"}

NodeIds == {NULL, "", "I_a", "I_b", "I_many"}

\* The invocations of the action.
Runs == {1, 2}

(***************************************************************************)
(* State.                                                                  *)
(***************************************************************************)

VARIABLES
    pc,        \* pc[r]: where invocation r stands
    env,       \* env[r]: the action inputs and the event payload of invocation r
    loc,       \* loc[r]: the local variables of index.ts and run()
    log,       \* log[r]: the graphql calls issued and answered, in order
    invoked,   \* invoked[r]: index.ts has called run()
    result,    \* result[r]: "none" while running, then "success" or "failed"
    failure,   \* failure[r]: the value handed to core.setFailed
    status,    \* status[i]: the Status value of project item i on the remote
    board      \* board[p]: the ordering of the items of project p on the remote

vars == << pc, env, loc, log, invoked, result, failure, status, board >>

NoEnv ==
    [variant |-> "index", projectNumberInput |-> << >>, organizationInput |-> "",
     statusNameInput |-> "", repoOwner |-> "", nodeId |-> NULL]

NoItem == [id |-> NULL, project |-> NULL, status |-> NULL]

NoLocals ==
    [projectNumber |-> 0, organization |-> NULL, statusName |-> NULL,
     issueNodeId |-> NULL, projectId |-> NULL, projectItem |-> NoItem,
     fieldId |-> NULL, optionId |-> NULL]

\* The variables of one graphql call; the fields a query does not use are NULL.
Request(op, l) ==
    [op |-> op,
     organization |-> IF op \in {"org", "user"} THEN l.organization ELSE NULL,
     projectNumber |-> IF op \in {"org", "user"} THEN l.projectNumber ELSE 0,
     issueNodeId |-> IF op = "locate" THEN l.issueNodeId ELSE NULL,
     projectId |-> IF op \in {"field", "setStatus", "moveToTop"} THEN l.projectId ELSE NULL,
     statusName |-> IF op = "field" THEN l.statusName ELSE NULL,
     itemId |-> IF op \in {"setStatus", "moveToTop"} THEN l.projectItem.id ELSE NULL,
     fieldId |-> IF op = "setStatus" THEN l.fieldId ELSE NULL,
     optionId |-> IF op = "setStatus" THEN l.optionId ELSE NULL]

CallEvent(q) == [ev |-> "call", req |-> q, ok |-> TRUE, id |-> NULL, error |-> NoError]

\* The call's promise settles: resolved (ok, with the project id when the query
\* asked for one) or rejected with `error`.
ReturnEvent(q, ok, id, error) ==
    [ev |-> "ret", req |-> q, ok |-> ok, id |-> id, error |-> error]

\* The boards the remote may start with.
InitialBoards ==
    { << "PVTI_a1", "PVTI_b1", "PVTI_m1" >>,
      << "PVTI_b1", "PVTI_a1", "PVTI_m1" >>,
      << "PVTI_m1", "PVTI_b1", "PVTI_a1" >> }

InitialStatuses == {NULL, "In Progress", "Done"}

\* The statuses the item of the user's project may start with.
InitialStatusesOfUserItem == {NULL, "In Progress"}

Init ==
    /\ pc = [r \in Runs |-> "idle"]
    /\ env = [r \in Runs |-> NoEnv]
    /\ loc = [r \in Runs |-> NoLocals]
    /\ log = [r \in Runs |-> << >>]
    /\ invoked = [r \in Runs |-> FALSE]
    /\ result = [r \in Runs |-> "none"]
    /\ failure = [r \in Runs |-> NoError]
    /\ \E sa \in InitialStatuses, su \in InitialStatusesOfUserItem :
          status = [i \in Items |->
                      IF i = "PVTI_a1" THEN sa
                      ELSE IF i = "PVTI_a2" THEN su
                      ELSE IF i = "PVTI_m1" THEN "Done"
                      ELSE IF i = "PVTI_b3" THEN NULL
                      ELSE "In Progress"]
    /\ \E b \in InitialBoards :
          board = [p \in Projects |->
                      IF p = "PVT_1" THEN b
                      ELSE IF p = "PVT_2" THEN << "PVTI_a2" >>
                      ELSE << "PVTI_b3" >>]

(***************************************************************************)
(* The entry point.                                                        *)
(***************************************************************************)

\* The workflow is triggered: the inputs and the event payload are fixed.
Start(r) ==
    /\ pc[r] = "idle"
    /\ \E v \in Variants, pn \in ProjectNumberInputs, o \in OrganizationInputs,
          sn \in StatusNameInputs, n \in NodeIds :
          env' = [env EXCEPT ![r] =
                     [variant |-> v, projectNumberInput |-> pn, organizationInput |-> o,
                      statusNameInput |-> sn, repoOwner |-> "acme", nodeId |-> n]]
    /\ pc' = [pc EXCEPT ![r] = "index"]
    /\ UNCHANGED << loc, log, invoked, result, failure, status, board >>

\* index.ts:19-22: catch (e) { core.setFailed(e) }: the end of a run that threw.
SetFailed(r, e) ==
    /\ pc' = [pc EXCEPT ![r] = "done"]
    /\ result' = [result EXCEPT ![r] = "failed"]
    /\ failure' = [failure EXCEPT ![r] = e]

\* The end of a run that returned.
Succeed(r) ==
    /\ pc' = [pc EXCEPT ![r] = "done"]
    /\ result' = [result EXCEPT ![r] = "success"]
    /\ UNCHANGED failure

\* The continuation moves on to label l.
Goto(r, l) ==
    /\ pc' = [pc EXCEPT ![r] = l]
    /\ UNCHANGED << result, failure >>

\* index.ts:5-18: read and validate the inputs, then call run().
Index(r) ==
    /\ pc[r] = "index"
    /\ LET got == ReadInputs(env[r])
       IN  IF got.ok
           THEN /\ loc' = [loc EXCEPT ![r] =
                              [NoLocals EXCEPT !.projectNumber = got.inputs.projectNumber,
                                               !.organization = got.inputs.organization,
                                               !.statusName = got.inputs.statusName]]
                /\ invoked' = [invoked EXCEPT ![r] = TRUE]
                /\ Goto(r, "run")
           ELSE /\ SetFailed(r, got.error)
                /\ UNCHANGED << loc, invoked >>
    /\ UNCHANGED << env, log, status, board >>

(***************************************************************************)
(* run(): the orchestrator and its helpers (run.ts).                       *)
(***************************************************************************)

\* `await octokit.graphql(...)` is reached: the call of `op` is issued.
IssueCall(r, op, to) ==
    /\ log' = [log EXCEPT ![r] = Append(@, CallEvent(Request(op, loc[r])))]
    /\ Goto(r, to)
    /\ UNCHANGED << env, loc, invoked, status, board >>

\* The remote has answered the call of `op`.
Resolves(r, op, id) ==
    log' = [log EXCEPT ![r] = Append(@, ReturnEvent(Request(op, loc[r]), TRUE, id, NoError))]

\* The call of `op` is rejected with e.
Rejects(r, op, e) ==
    log' = [log EXCEPT ![r] = Append(@, ReturnEvent(Request(op, loc[r]), FALSE, NULL, e))]

\* Mutant: only an undefined node id is refused, an empty one passes.
MissingNodeId_UndefinedOnly(issueNodeId) == issueNodeId = NULL

\* run.ts:61: !issueNodeId
MissingNodeId(issueNodeId) == Falsy(issueNodeId)

\* run.ts:57-63: run() starts; the issue's node id must be there.
RunEntry(r) ==
    /\ pc[r] = "run"
    /\ IF MissingNodeId(env[r].nodeId)
       THEN /\ SetFailed(r, CodeError(<< "Issue node ID is not available from the event context" >>))
            /\ UNCHANGED loc
       ELSE /\ loc' = [loc EXCEPT ![r].issueNodeId = env[r].nodeId]
            /\ Goto(r, "orgCall")
    /\ UNCHANGED << env, log, invoked, status, board >>

\* ---- fetchProjectId (run.ts:86-151) ----

Rejected(e) == [ok |-> FALSE, id |-> NULL, error |-> e]

Resolved(id) == [ok |-> TRUE, id |-> id, error |-> NoError]

\* What the organization query can come back with: the project's id, a
\* response without one (the shape the test at part_001:114-117 feeds), or a
\* rejection.
OrgLookupOutcomes(organization, projectNumber) ==
    {Resolved(OrgProject(organization, projectNumber))} \cup {Rejected(e) : e \in RemoteErrors}

UserLookupOutcomes(organization, projectNumber) ==
    {Resolved(UserProject(organization, projectNumber))} \cup {Rejected(e) : e \in RemoteErrors}

\* Mutant: the catch clause swallows every error.
AfterOrgLookup_CatchAll(out) ==
    IF out.ok THEN (IF ~Falsy(out.id) THEN "return" ELSE "fallback")
    ELSE "fallback"

\* Mutant: the user query is tried even when the organization query gave an id.
AfterOrgLookup_UserToo(out) ==
    IF out.ok THEN "fallback"
    ELSE IF Swallowed(out.error) THEN "fallback"
    ELSE "throw"

\* run.ts:98-117: what fetchProjectId does with the organization query's outcome.
AfterOrgLookup(out) ==
    IF out.ok THEN (IF ~Falsy(out.id) THEN "return" ELSE "fallback")
    ELSE IF Swallowed(out.error) THEN "fallback"
    ELSE "throw"

\* Mutant: the catch clause rethrows every error.
AfterUserLookup_Rethrow(out) ==
    IF out.ok THEN (IF ~Falsy(out.id) THEN "return" ELSE "notfound")
    ELSE "throw"

\* run.ts:130-150: what fetchProjectId does with the user query's outcome.
AfterUserLookup(out) ==
    IF out.ok THEN (IF ~Falsy(out.id) THEN "return" ELSE "notfound")
    ELSE IF Swallowed(out.error) THEN "notfound"
    ELSE "throw"

\* run.ts:99
OrgCall(r) ==
    /\ pc[r] = "orgCall"
    /\ IssueCall(r, "org", "orgWait")

\* run.ts:99-117
OrgReturn(r) ==
    /\ pc[r] = "orgWait"
    /\ \E out \in OrgLookupOutcomes(loc[r].organization, loc[r].projectNumber) :
          /\ IF out.ok THEN Resolves(r, "org", out.id) ELSE Rejects(r, "org", out.error)
          /\ IF AfterOrgLookup(out) = "return"
             THEN /\ loc' = [loc EXCEPT ![r].projectId = out.id]
                  /\ Goto(r, "locateCall")
             ELSE IF AfterOrgLookup(out) = "fallback"
             THEN /\ Goto(r, "userCall")
                  /\ UNCHANGED loc
             ELSE /\ SetFailed(r, out.error)
                  /\ UNCHANGED loc
    /\ UNCHANGED << env, invoked, status, board >>

\* run.ts:131
UserCall(r) ==
    /\ pc[r] = "userCall"
    /\ IssueCall(r, "user", "userWait")

\* run.ts:131-150
UserReturn(r) ==
    /\ pc[r] = "userWait"
    /\ \E out \in UserLookupOutcomes(loc[r].organization, loc[r].projectNumber) :
          /\ IF out.ok THEN Resolves(r, "user", out.id) ELSE Rejects(r, "user", out.error)
          /\ IF AfterUserLookup(out) = "return"
             THEN /\ loc' = [loc EXCEPT ![r].projectId = out.id]
                  /\ Goto(r, "locateCall")
             ELSE IF AfterUserLookup(out) = "notfound"
             THEN /\ SetFailed(r, CodeError(NotFoundMessage(loc[r].projectNumber,
                                                            loc[r].organization)))
                  /\ UNCHANGED loc
             ELSE /\ SetFailed(r, out.error)
                  /\ UNCHANGED loc
    /\ UNCHANGED << env, invoked, status, board >>

\* ---- fetchProjectItemForIssue (run.ts:205-238) ----

\* A node of the response: the membership with fieldValueByName(name: "Status").
ItemNode(m, st) ==
    [id |-> m.id, project |-> m.project,
     status |-> IF m.id \in Items THEN st[m.id] ELSE NULL]

\* node(id: $issueNodeId){ projectItems(first: 10){ nodes } }
ProjectItemNodes(issueNodeId, st) ==
    LET page == First(PageSize, ProjectItemsOf(issueNodeId))
    IN  [i \in 1..Len(page) |-> ItemNode(page[i], st)]

\* Mutant: the first membership is taken, whatever its project.
find_First(nodes, projectId) ==
    IF Len(nodes) = 0 THEN NoItem ELSE nodes[1]

\* Mutant: the last membership of the page is taken, whatever its project.
find_Last(nodes, projectId) ==
    IF Len(nodes) = 0 THEN NoItem ELSE nodes[Len(nodes)]

\* run.ts:235-237: projectItems.find(item => item.project.id === projectId) || null
find(nodes, projectId) ==
    LET hits == {i \in 1..Len(nodes) : nodes[i].project = projectId}
    IN  IF hits = {} THEN NoItem
        ELSE nodes[CHOOSE i \in hits : \A j \in hits : i <= j]

\* Mutant: the item is moved only when its status had to change.
AfterLocate_MoveOnlyOnChange(projectItem, statusName) ==
    IF projectItem = NoItem THEN "skip"
    ELSE IF projectItem.status # statusName THEN "fieldCall"
    ELSE "skip"

\* Mutant: the status is updated without comparing it with the target.
AfterLocate_AlwaysUpdate(projectItem, statusName) ==
    IF projectItem = NoItem THEN "skip" ELSE "fieldCall"

\* Mutant: the current status is compared with the target ignoring case.
AfterLocate_IgnoreCase(projectItem, statusName) ==
    IF projectItem = NoItem THEN "skip"
    ELSE IF Lower(projectItem.status) # Lower(statusName) THEN "fieldCall"
    ELSE "moveCall"

\* run.ts:68-79: where run() goes once the item is looked up.
AfterLocate(projectItem, statusName) ==
    IF projectItem = NoItem THEN "skip"
    ELSE IF projectItem.status # statusName THEN "fieldCall"
    ELSE "moveCall"

\* run.ts:232
LocateCall(r) ==
    /\ pc[r] = "locateCall"
    /\ IssueCall(r, "locate", "locateWait")

\* run.ts:232-237, 67-79
LocateReturn(r) ==
    /\ pc[r] = "locateWait"
    /\ \/ LET projectItem == find(ProjectItemNodes(loc[r].issueNodeId, status),
                                  loc[r].projectId)
              step == AfterLocate(projectItem, loc[r].statusName)
          IN  /\ Resolves(r, "locate", NULL)
              /\ loc' = [loc EXCEPT ![r].projectItem = projectItem]
              /\ IF step = "skip" THEN Succeed(r) ELSE Goto(r, step)
       \/ \E e \in RemoteErrors :
              /\ Rejects(r, "locate", e)
              /\ SetFailed(r, e)
              /\ UNCHANGED loc
    /\ UNCHANGED << env, invoked, status, board >>

\* ---- fetchStatusFieldDetails (run.ts:161-203) ----

\* node(id: $projectId){ field(name: "Status"){ id name options(names: [$statusName]) } }
StatusFieldResponse(projectId, statusName) ==
    LET field == StatusFieldOf(projectId)
    IN  IF field = NoField THEN NoField
        ELSE [id |-> field.id, options |-> FilteredOptions(field, statusName)]

NoDetails == [fieldId |-> NULL, optionId |-> NULL]

\* run.ts:187-202: the field and option ids, or the error thrown.
StatusFieldDetails(statusField, statusName) ==
    IF statusField = NoField THEN
        [ok |-> FALSE, error |-> CodeError(<< "Status field not found in project" >>),
         ids |-> NoDetails]
    ELSE IF Len(statusField.options) = 0 THEN
        [ok |-> FALSE,
         error |-> CodeError(<< "Status option ", statusName, " not found in Status field" >>),
         ids |-> NoDetails]
    ELSE
        [ok |-> TRUE, error |-> NoError,
         ids |-> [fieldId |-> statusField.id, optionId |-> statusField.options[1].id]]

\* run.ts:185
FieldCall(r) ==
    /\ pc[r] = "fieldCall"
    /\ IssueCall(r, "field", "fieldWait")

\* run.ts:185-202, 77
FieldReturn(r) ==
    /\ pc[r] = "fieldWait"
    /\ \/ LET got == StatusFieldDetails(
                         StatusFieldResponse(loc[r].projectId, loc[r].statusName),
                         loc[r].statusName)
          IN  /\ Resolves(r, "field", NULL)
              /\ IF got.ok
                 THEN /\ loc' = [loc EXCEPT ![r].fieldId = got.ids.fieldId,
                                            ![r].optionId = got.ids.optionId]
                      /\ Goto(r, "setCall")
                 ELSE /\ SetFailed(r, got.error)
                      /\ UNCHANGED loc
       \/ \E e \in RemoteErrors :
              /\ Rejects(r, "field", e)
              /\ SetFailed(r, e)
              /\ UNCHANGED loc
    /\ UNCHANGED << env, invoked, status, board >>

\* ---- updateProjectItemStatus (run.ts:240-272) ----

\* The option of the project's Status field with this id, as a set (empty or one).
OptionsWithId(projectId, fieldId, optionId) ==
    LET field == StatusFieldOf(projectId)
    IN  IF field = NoField \/ field.id # fieldId THEN {}
        ELSE {field.options[i] : i \in {j \in 1..Len(field.options) :
                                             field.options[j].id = optionId}}

\* updateProjectV2ItemFieldValue is accepted for an item of the project and an
\* option of its field.
SetStatusAccepted(q) ==
    /\ q.itemId \in Items
    /\ ProjectOfItem(q.itemId) = q.projectId
    /\ OptionsWithId(q.projectId, q.fieldId, q.optionId) # {}

\* The item's Status becomes the option's name.
StatusAfterSet(st, q) ==
    [st EXCEPT ![q.itemId] =
        (CHOOSE o \in OptionsWithId(q.projectId, q.fieldId, q.optionId) : TRUE).name]

\* Mutant: the set-status call without its `await`.
SetStatusCall_NotAwaited(r) ==
    /\ pc[r] = "setCall"
    /\ IssueCall(r, "setStatus", "moveCall")

\* run.ts:264
SetStatusCall(r) ==
    /\ pc[r] = "setCall"
    /\ IssueCall(r, "setStatus", "setWait")

\* Mutant: a rejected set-status is caught and the run goes on to reposition.
SetStatusReturn_SwallowsRejection(r) ==
    /\ pc[r] = "setWait"
    /\ LET q == Request("setStatus", loc[r])
       IN  \/ /\ SetStatusAccepted(q)
              /\ status' = StatusAfterSet(status, q)
              /\ Resolves(r, "setStatus", NULL)
              /\ Goto(r, "moveCall")
           \/ \E e \in RemoteErrors :
                 /\ Rejects(r, "setStatus", e)
                 /\ Goto(r, "moveCall")
                 /\ UNCHANGED status
    /\ UNCHANGED << env, loc, invoked, board >>

\* run.ts:264-271, 78
SetStatusReturn(r) ==
    /\ pc[r] = "setWait"
    /\ LET q == Request("setStatus", loc[r])
       IN  \/ /\ SetStatusAccepted(q)
              /\ status' = StatusAfterSet(status, q)
              /\ Resolves(r, "setStatus", NULL)
              /\ Goto(r, "moveCall")
           \/ \E e \in RemoteErrors :
                 /\ Rejects(r, "setStatus", e)
                 /\ SetFailed(r, e)
                 /\ UNCHANGED status
    /\ UNCHANGED << env, loc, invoked, board >>

\* ---- moveItemToTop (run.ts:274-297) ----

\* updateProjectV2ItemPosition is accepted for an item of the project.
MoveAccepted(q) ==
    /\ q.itemId \in Items
    /\ ProjectOfItem(q.itemId) = q.projectId

\* Mutant: the item is put first without leaving its old place.
BoardAfterMove_KeepsOldPlace(b, q) ==
    [b EXCEPT ![q.projectId] = << q.itemId >> \o @]

\* afterId: null: the item becomes the first of the project's ordering.
BoardAfterMove(b, q) ==
    LET Other(i) == i # q.itemId
    IN  [b EXCEPT ![q.projectId] = << q.itemId >> \o SelectSeq(@, Other)]

\* run.ts:293
MoveCall(r) ==
    /\ pc[r] = "moveCall"
    /\ IssueCall(r, "moveToTop", "moveWait")

\* Mutant: a rejected reposition is tried again.
MoveReturn_Retry(r) ==
    /\ pc[r] = "moveWait"
    /\ LET q == Request("moveToTop", loc[r])
       IN  \/ /\ MoveAccepted(q)
              /\ board' = BoardAfterMove(board, q)
              /\ Resolves(r, "moveToTop", NULL)
              /\ Succeed(r)
           \/ \E e \in RemoteErrors :
                 /\ Rejects(r, "moveToTop", e)
                 /\ Goto(r, "moveCall")
                 /\ UNCHANGED board
    /\ UNCHANGED << env, loc, invoked, status >>

\* run.ts:293-296, 82-84
MoveReturn(r) ==
    /\ pc[r] = "moveWait"
    /\ LET q == Request("moveToTop", loc[r])
       IN  \/ /\ MoveAccepted(q)
              /\ board' = BoardAfterMove(board, q)
              /\ Resolves(r, "moveToTop", NULL)
              /\ Succeed(r)
           \/ \E e \in RemoteErrors :
                 /\ Rejects(r, "moveToTop", e)
                 /\ SetFailed(r, e)
                 /\ UNCHANGED board
    /\ UNCHANGED << env, loc, invoked, status >>

(***************************************************************************)
(* Specification: one invocation of the action against the remote.         *)
(***************************************************************************)

Step(r) ==
    \/ Start(r)
    \/ Index(r)
    \/ RunEntry(r)
    \/ OrgCall(r)
    \/ OrgReturn(r)
    \/ UserCall(r)
    \/ UserReturn(r)
    \/ LocateCall(r)
    \/ LocateReturn(r)
    \/ FieldCall(r)
    \/ FieldReturn(r)
    \/ SetStatusCall(r)
    \/ SetStatusReturn(r)
    \/ MoveCall(r)
    \/ MoveReturn(r)

\* Spec follows the first invocation alone.
Solo == {r \in Runs : \A q \in Runs : r <= q}

Next == \E r \in Solo : Step(r)

Spec == Init /\ [][Next]_vars

(***************************************************************************)
(* Vocabulary of the properties.                                           *)
(***************************************************************************)

IsCall(e) == e.ev = "call"

\* The operations of the calls a run has issued, in order.
Ops(r) ==
    LET calls == SelectSeq(log[r], IsCall)
    IN  [i \in 1..Len(calls) |-> calls[i].req.op]

Count(r, op) == Cardinality({i \in 1..Len(log[r]) : IsCall(log[r][i]) /\ log[r][i].req.op = op})

IsPrefix(s, t) == Len(s) <= Len(t) /\ \A i \in 1..Len(s) : s[i] = t[i]

\* Every call is issued only after the call before it has settled: the log is
\* call, its return, call, its return, ...
Sequential(r) ==
    \A i \in 1..Len(log[r]) :
        IF i % 2 = 1 THEN log[r][i].ev = "call"
        ELSE log[r][i].ev = "ret" /\ log[r][i].req = log[r][i - 1].req

Finished(r) == result[r] # "none"

\* The return of the call of `op` in the log, as a set (empty while unanswered).
Returns(r, op) ==
    {log[r][i] : i \in {j \in 1..Len(log[r]) : log[r][j].ev = "ret" /\ log[r][j].req.op = op}}

ResolvedCall(r, op) == \E e \in Returns(r, op) : e.ok

\* The calls of owner resolution: the organization query, then possibly the user query.
OwnerOps == { << "org" >>, << "org", "user" >> }

\* The item locator has answered and found the issue's item in the resolved project.
Found(r) == ResolvedCall(r, "locate") /\ loc[r].projectItem # NoItem

\* The item locator has answered and found no item of the resolved project.
Absent(r) == ResolvedCall(r, "locate") /\ loc[r].projectItem = NoItem

\* On the remote, the issue of the run has no membership in the resolved project.
NotLinked(r) ==
    /\ loc[r].projectId # NULL
    /\ \A i \in 1..Len(ProjectItemsOf(env[r].nodeId)) :
          ProjectItemsOf(env[r].nodeId)[i].project # loc[r].projectId

(***************************************************************************)
(* C1-C3: the call sequences of run().                                     *)
(***************************************************************************)

\* C1: in every run whose item is found with a current status other than the
\* target status name, the calls issued so far are, in order, a beginning of:
\* owner resolution, item location, status-field resolution, set-status,
\* reposition; each call is issued only after the one before it has returned;
\* and a run that ends in success has issued all of them.
C1_CallOrder ==
    \A r \in Runs :
        (Found(r) /\ loc[r].projectItem.status # loc[r].statusName) =>
            /\ Sequential(r)
            /\ \E o \in OwnerOps :
                  LET full == o \o << "locate", "field", "setStatus", "moveToTop" >>
                  IN  /\ IsPrefix(Ops(r), full)
                      /\ result[r] = "success" => Ops(r) = full

C1_Witness ==
    \E r \in Runs :
        /\ result[r] = "success"
        /\ Found(r)
        /\ loc[r].projectItem.status = "In Progress"
        /\ loc[r].statusName = "Done"
        /\ Ops(r) = << "org", "locate", "field", "setStatus", "moveToTop" >>

\* C2: in every run whose located item already has the target status, no
\* status-field resolution and no set-status is ever issued, and the finished
\* run has issued exactly owner resolution, item location and one reposition.
C2_AlreadyAtTarget ==
    \A r \in Runs :
        (Found(r) /\ loc[r].projectItem.status = loc[r].statusName) =>
            /\ Count(r, "field") = 0
            /\ Count(r, "setStatus") = 0
            /\ Count(r, "moveToTop") <= 1
            /\ Finished(r) =>
                  /\ Count(r, "moveToTop") = 1
                  /\ \E o \in OwnerOps : Ops(r) = o \o << "locate", "moveToTop" >>

C2_Witness ==
    \E r \in Runs :
        /\ result[r] = "success"
        /\ Found(r)
        /\ loc[r].projectItem.status = "Done"
        /\ loc[r].statusName = "Done"
        /\ Ops(r) = << "org", "locate", "moveToTop" >>

\* C3: a run whose issue has no membership in the resolved project never
\* issues a status-field resolution, a set-status or a reposition; once the
\* item locator has answered that there is no such item, the run has ended in
\* success having issued exactly the owner-resolution and item-location calls.
C3_NotInProject ==
    \A r \in Runs :
        /\ NotLinked(r) =>
              /\ Count(r, "field") = 0
              /\ Count(r, "setStatus") = 0
              /\ Count(r, "moveToTop") = 0
        /\ Absent(r) =>
              /\ result[r] = "success"
              /\ pc[r] = "done"
              /\ \E o \in OwnerOps : Ops(r) = o \o << "locate" >>

C3_Witness ==
    \E r \in Runs :
        /\ NotLinked(r)
        /\ Absent(r)
        /\ result[r] = "success"
        /\ Ops(r) = << "org", "user", "locate" >>

(***************************************************************************)
(* C4-C5: owner resolution.                                                *)
(***************************************************************************)

\* An error of the not-found class: a GraphQL response error listing NOT_FOUND.
NotFoundClass(e) ==
    e.kind = "remote" /\ \E i \in 1..Len(e.types) : e.types[i] = "NOT_FOUND"

\* The settled organization / user query of the run, as a set (empty or one).
OrgAnswer(r) == Returns(r, "org")

UserAnswer(r) == Returns(r, "user")

\* The query was answered without a project id: rejected as not found, or
\* resolved with no project in the response.
NoProject(e) == IF e.ok THEN Falsy(e.id) ELSE NotFoundClass(e.error)

\* C4 as stated: the user lookup is issued only when the organization lookup
\* has been rejected with a not-found-class error, and after a rejection of any
\* other class the run has failed without another call.
C4_FallbackOnlyOnNotFoundError ==
    \A r \in Runs :
        /\ Count(r, "user") > 0 =>
              \E e \in OrgAnswer(r) : ~e.ok /\ NotFoundClass(e.error)
        /\ \A e \in OrgAnswer(r) :
              (~e.ok /\ ~NotFoundClass(e.error)) =>
                  /\ result[r] = "failed"
                  /\ Ops(r) = << "org" >>

\* C4 (amended): the user lookup is issued only when the organization lookup
\* has been rejected with a not-found-class error or has resolved without a
\* project id; when it resolved with a project id the user lookup is never
\* issued; and when it was rejected with an error of any other class the run
\* has failed with that error and has issued no other call.
C4_FallbackGate ==
    \A r \in Runs :
        /\ Count(r, "user") > 0 => \E e \in OrgAnswer(r) : NoProject(e)
        /\ \A e \in OrgAnswer(r) :
              /\ (e.ok /\ ~Falsy(e.id)) => Count(r, "user") = 0
              /\ (~e.ok /\ ~NotFoundClass(e.error)) =>
                    /\ result[r] = "failed"
                    /\ failure[r] = e.error
                    /\ Ops(r) = << "org" >>

C4_Witness ==
    \E r \in Runs :
        /\ Count(r, "user") > 0
        /\ \E e \in OrgAnswer(r) : ~e.ok /\ NotFoundClass(e.error)

\* C5: whenever both lookups have been answered without a project id (not
\* found, or no project in the response), the run has failed with the error
\* "Project #<projectNumber> not found for <organization>", naming the project
\* number and the owner it was given, and has issued no call but the two lookups.
C5_NotFound ==
    \A r \in Runs :
        ((\E e \in OrgAnswer(r) : NoProject(e)) /\ (\E e \in UserAnswer(r) : NoProject(e))) =>
            /\ result[r] = "failed"
            /\ failure[r].kind = "Error"
            /\ Len(failure[r].message) = 4
            /\ failure[r].message[1] = "Project #"
            /\ failure[r].message[2] = loc[r].projectNumber
            /\ failure[r].message[3] = " not found for "
            /\ failure[r].message[4] = loc[r].organization
            /\ Ops(r) = << "org", "user" >>

C5_Witness ==
    \E r \in Runs :
        /\ result[r] = "failed"
        /\ loc[r].organization = "ghost"
        /\ loc[r].projectNumber = 2
        /\ \E e \in OrgAnswer(r) : NoProject(e)
        /\ \E e \in UserAnswer(r) : NoProject(e)
        /\ failure[r].message = << "Project #", 2, " not found for ", "ghost" >>

(***************************************************************************)
(* C6-C7: the mutations of a run and their effect on the board.            *)
(***************************************************************************)

\* No call of the run has been rejected.
NoRejection(r) == \A i \in 1..Len(log[r]) : log[r][i].ok

LastOp(r) == Ops(r)[Len(Ops(r))]

NoMutation(r) == Count(r, "setStatus") = 0 /\ Count(r, "moveToTop") = 0

\* C6 as stated, for the runs none of whose calls is rejected: a finished run
\* that found the item has issued exactly one reposition, as its last call, and
\* at most one set-status; a run whose issue is not linked has issued none.
C6_ExactlyOneReposition ==
    \A r \in Runs :
        /\ (Finished(r) /\ Found(r) /\ NoRejection(r)) =>
              /\ Count(r, "moveToTop") = 1
              /\ LastOp(r) = "moveToTop"
              /\ Count(r, "setStatus") <= 1
        /\ NotLinked(r) => NoMutation(r)

\* C6 (amended): in every run that found the item, at most one reposition and
\* at most one set-status are issued and a reposition, once issued, is the last
\* call of the run; a run that ends in success has issued exactly one
\* reposition, and a run that ends without one has failed in status-field
\* resolution or in set-status.  A run whose issue is not linked to the
\* project, or whose locator found no item, issues no mutation.
C6_Mutations ==
    \A r \in Runs :
        /\ Found(r) =>
              /\ Count(r, "moveToTop") <= 1
              /\ Count(r, "setStatus") <= 1
              /\ Count(r, "moveToTop") = 1 => LastOp(r) = "moveToTop"
              /\ result[r] = "success" => Count(r, "moveToTop") = 1
              /\ (Finished(r) /\ Count(r, "moveToTop") = 0) =>
                    /\ result[r] = "failed"
                    /\ LastOp(r) \in {"field", "setStatus"}
        /\ (NotLinked(r) \/ Absent(r)) => NoMutation(r)

C6_Witness ==
    \E r \in Runs :
        /\ Found(r)
        /\ result[r] = "success"
        /\ Count(r, "setStatus") = 1
        /\ Count(r, "moveToTop") = 1
        /\ LastOp(r) = "moveToTop"

\* C7: when a run that found the issue's item ends in success (Spec has no
\* other actor on the board), the item's Status on the remote is the target
\* status name and the item is the first of the project's ordering.
C7_StatusSetAndAtHead ==
    \A r \in Runs :
        (result[r] = "success" /\ Found(r)) =>
            /\ status[loc[r].projectItem.id] = loc[r].statusName
            /\ Head(board[loc[r].projectId]) = loc[r].projectItem.id

(***************************************************************************)
(* C8-C9: the inputs refused before any remote call.                       *)
(***************************************************************************)

\* C8: with a payload whose issue has no node id (missing or empty) no remote
\* call is ever issued, and run(), once called, has failed with "Issue node ID
\* is not available from the event context".
C8_MissingNodeId ==
    \A r \in Runs :
        Falsy(env[r].nodeId) =>
            /\ log[r] = << >>
            /\ (invoked[r] /\ pc[r] # "run") =>
                  /\ result[r] = "failed"
                  /\ failure[r].kind = "Error"
                  /\ failure[r].message =
                        << "Issue node ID is not available from the event context" >>

C8_Witness ==
    \E r \in Runs :
        /\ invoked[r]
        /\ env[r].nodeId = ""
        /\ result[r] = "failed"
        /\ log[r] = << >>

\* Inputs that are no integer greater than 0: zero, negative, non-integer,
\* non-numeric.
NonConformingExamples == { << "0" >>, << "-", "1" >>, << "1", ".", "5" >>, << "a" >> }

\* C9: once the entry point has read its inputs, a project-number that is not
\* an integer greater than 0 has made the run fail without run() being called
\* and without any remote call; run() is called only with the positive integer
\* the input denotes.
C9_ProjectNumber ==
    \A r \in Runs :
        pc[r] \notin {"idle", "index"} =>
            LET v == Number(env[r].projectNumberInput)
                conforming == ~v.nan /\ v.num > 0 /\ v.num % v.den = 0
            IN  /\ (~conforming \/ env[r].projectNumberInput \in NonConformingExamples) =>
                      /\ ~invoked[r]
                      /\ result[r] = "failed"
                      /\ log[r] = << >>
                /\ invoked[r] =>
                      /\ loc[r].projectNumber > 0
                      /\ loc[r].projectNumber * v.den = v.num

C9_Witness ==
    \E r \in Runs :
        /\ env[r].projectNumberInput = << "1", ".", "5" >>
        /\ result[r] = "failed"
        /\ ~invoked[r]
        /\ log[r] = << >>

(***************************************************************************)
(* C10: status resolution.                                                 *)
(***************************************************************************)

\* The options of the project's Status field named exactly `name`.
ExactOptions(projectId, name) ==
    LET field == StatusFieldOf(projectId)
    IN  {field.options[i] : i \in {j \in 1..Len(field.options) : field.options[j].name = name}}

\* C10: once the status-field query has been answered, the run has failed with
\* "Status field not found in project" if the project has no Status field, has
\* failed with "Status option ... not found" if that field has no option named
\* exactly statusName, and otherwise holds the id of an option whose name is
\* exactly statusName.
C10_StatusResolution ==
    \A r \in Runs :
        ResolvedCall(r, "field") =>
            IF StatusFieldOf(loc[r].projectId) = NoField THEN
                /\ result[r] = "failed"
                /\ failure[r].message = << "Status field not found in project" >>
            ELSE IF ExactOptions(loc[r].projectId, loc[r].statusName) = {} THEN
                /\ result[r] = "failed"
                /\ failure[r].message[1] = "Status option "
            ELSE
                /\ loc[r].fieldId = StatusFieldOf(loc[r].projectId).id
                /\ \E o \in ExactOptions(loc[r].projectId, loc[r].statusName) :
                      loc[r].optionId = o.id

(***************************************************************************)
(* C11: fatal conditions end the run.                                      *)
(***************************************************************************)

\* The answer e of a call is one of the fatal conditions: a rejection other
\* than a not-found-class rejection of the organization query; a user query
\* answered without a project; a Status field answer without the field or
\* without an option of the target name.
FatalAnswer(e) ==
    \/ ~e.ok /\ ~(e.req.op = "org" /\ NotFoundClass(e.error))
    \/ e.ok /\ e.req.op = "user" /\ Falsy(e.id)
    \/ /\ e.ok
       /\ e.req.op = "field"
       /\ \/ StatusFieldOf(e.req.projectId) = NoField
          \/ FilteredOptions(StatusFieldOf(e.req.projectId), e.req.statusName) = << >>

\* C11: in every run, the answer that is a fatal condition (owner not found,
\* Status field or option not found, a rejected set-status or reposition, any
\* other rejection that is not swallowed) is the last event of the run: no call
\* is issued after it, the run is over and reported as failed with an error; a
\* reposition is never issued after a failed status resolution or a rejected
\* set-status.
C11_FatalAborts ==
    \A r \in Runs :
        /\ \A i \in 1..Len(log[r]) :
              (log[r][i].ev = "ret" /\ FatalAnswer(log[r][i])) =>
                  /\ i = Len(log[r])
                  /\ pc[r] = "done"
                  /\ result[r] = "failed"
                  /\ failure[r] # NoError
        /\ result[r] = "failed" => pc[r] = "done"
        /\ Count(r, "moveToTop") > 0 =>
              \A e \in Returns(r, "field") \cup Returns(r, "setStatus") : ~FatalAnswer(e)

C11_Witness ==
    \E r \in Runs :
        /\ result[r] = "failed"
        /\ Count(r, "setStatus") = 1
        /\ LastOp(r) = "setStatus"
        /\ \E e \in Returns(r, "setStatus") : ~e.ok /\ failure[r] = e.error
        /\ Count(r, "moveToTop") = 0

(***************************************************************************)
(* C12: the reposition is idempotent in effect.                            *)
(***************************************************************************)

\* The reposition request moveItemToTop(projectId, itemId) sends.
MoveRequest(itemId) == [projectId |-> ProjectOfItem(itemId), itemId |-> itemId]

Elements(s) == {s[i] : i \in 1..Len(s)}

Differs(r) == loc[r].projectItem.status # loc[r].statusName

\* C13 as stated, for the runs none of whose calls is rejected: a finished run
\* that found the item has issued a set-status if and only if the item's
\* current status is not exactly the target status name.
C13_SetStatusIffDifferent ==
    \A r \in Runs :
        (Finished(r) /\ Found(r) /\ NoRejection(r)) =>
            (Count(r, "setStatus") > 0 <=> Differs(r))

\* C13, amended: for a located item, status resolution and set-status are
\* issued only if the item's current status is not exactly (case-sensitively)
\* the target status name, an absent status counting as different; whenever it
\* differs the status resolution is issued next, and the set-status is issued
\* next once that resolution has been answered with a field and an option.
C13_SetStatus ==
    \A r \in Runs :
        Found(r) =>
            /\ loc[r].projectItem.status = NULL => Differs(r)
            /\ ~Differs(r) => Count(r, "field") = 0 /\ Count(r, "setStatus") = 0
            /\ Differs(r) => pc[r] = "fieldCall" \/ Count(r, "field") = 1
            /\ (Differs(r) /\ \E e \in Returns(r, "field") : ~FatalAnswer(e)) =>
                  pc[r] = "setCall" \/ Count(r, "setStatus") = 1
            /\ Count(r, "setStatus") > 0 =>
                  /\ Differs(r)
                  /\ \E e \in Returns(r, "field") : ~FatalAnswer(e)

\* The current status "Done" differs from the target "done" only by case, and
\* the set-status has been issued.
C13_Witness ==
    \E r \in Runs :
        /\ Found(r)
        /\ loc[r].projectItem.status = "Done"
        /\ loc[r].statusName = "done"
        /\ Count(r, "setStatus") = 1

(***************************************************************************)
(* C14: mutations stay inside the resolved project.                        *)
(***************************************************************************)

\* The project ids the owner resolution of the run has been answered with.
ResolvedProjectIds(r) ==
    {e.id : e \in {a \in OrgAnswer(r) \cup UserAnswer(r) : a.ok /\ ~Falsy(a.id)}}

\* C14: every set-status and every reposition a run issues names the project
\* id its owner resolution returned and an item that is the issue's membership
\* in that very project; a membership of another project is never passed to a
\* mutation.
C14_MutationsInResolvedProject ==
    \A r \in Runs :
        \A i \in 1..Len(log[r]) :
            (IsCall(log[r][i]) /\ log[r][i].req.op \in {"setStatus", "moveToTop"}) =>
                LET q == log[r][i].req
                IN  /\ ResolvedProjectIds(r) = {q.projectId}
                    /\ Membership(q.itemId, q.projectId) \in Elements(ProjectItemsOf(env[r].nodeId))
                    /\ ProjectOfItem(q.itemId) = q.projectId

\* The issue's first membership is in another project (PVT_2), and both
\* mutations have been issued for its item of the resolved project PVT_1.
C14_Witness ==
    \E r \in Runs :
        /\ env[r].nodeId = "I_a"
        /\ ProjectItemsOf("I_a")[1].project = "PVT_2"
        /\ ResolvedProjectIds(r) = {"PVT_1"}
        /\ Count(r, "setStatus") = 1
        /\ Count(r, "moveToTop") = 1
        /\ \A i \in 1..Len(log[r]) :
              log[r][i].req.op \in {"setStatus", "moveToTop"} => log[r][i].req.itemId = "PVTI_a1"

(***************************************************************************)
(* C15: re-triggering.  A second specification: the action is triggered a  *)
(* second time, with the inputs and the event of the first run, once the   *)
(* first run has ended in success; nothing else touches the board.         *)
(***************************************************************************)

\* The steps of a triggered run: the entry point, then run().
RunStep(r) ==
    \/ Index(r)
    \/ RunEntry(r)
    \/ OrgCall(r)
    \/ OrgReturn(r)
    \/ UserCall(r)
    \/ UserReturn(r)
    \/ LocateCall(r)
    \/ LocateReturn(r)
    \/ FieldCall(r)
    \/ FieldReturn(r)
    \/ SetStatusCall(r)
    \/ SetStatusReturn(r)
    \/ MoveCall(r)
    \/ MoveReturn(r)

\* The runs after the first.
Later == Runs \ Solo

\* The workflow is triggered again for the same issue, project and target.
Retrigger(r) ==
    /\ pc[r] = "idle"
    /\ \E f \in Solo :
          /\ pc[f] = "done"
          /\ result[f] = "success"
          /\ env' = [env EXCEPT ![r] = env[f]]
    /\ pc' = [pc EXCEPT ![r] = "index"]
    /\ UNCHANGED << loc, log, invoked, result, failure, status, board >>

NextRetrigger ==
    \/ \E r \in Solo : Start(r)
    \/ \E r \in Later : Retrigger(r)
    \/ \E r \in Runs : RunStep(r)

SpecRetrigger == Init /\ [][NextRetrigger]_vars

\* C15: a second run for the same issue, project and target, after a first
\* run that ended in success having found the item, that ends in success has
\* issued no set-status and exactly one reposition, and leaves the item with
\* the target status at the head of the board.
C15_RetriggerSafe ==
    \A r \in Later :
        (result[r] = "success" /\ \E f \in Solo : Found(f)) =>
            /\ Count(r, "setStatus") = 0
            /\ Count(r, "moveToTop") = 1
            /\ status[loc[r].projectItem.id] = loc[r].statusName
            /\ Head(board[loc[r].projectId]) = loc[r].projectItem.id

(***************************************************************************)
(* C16: concurrent runs.  A third specification: two invocations, for two  *)
(* issues linked to the same board (I_a and I_b, project 1 of acme), whose *)
(* steps interleave freely.                                                *)
(***************************************************************************)

\* The issue each of the two concurrent runs is triggered for.
IssueOf(r) == IF r \in Solo THEN "I_a" ELSE "I_b"

\* The workflow is triggered for the run's issue.
StartConcurrent(r) ==
    /\ pc[r] = "idle"
    /\ \E v \in Variants, sn \in StatusNameInputs :
          env' = [env EXCEPT ![r] =
                     [variant |-> v, projectNumberInput |-> << "1" >>,
                      organizationInput |-> "acme", statusNameInput |-> sn,
                      repoOwner |-> "acme", nodeId |-> IssueOf(r)]]
    /\ pc' = [pc EXCEPT ![r] = "index"]
    /\ UNCHANGED << loc, log, invoked, result, failure, status, board >>

NextConcurrent ==
    \/ \E r \in Runs : StartConcurrent(r)
    \/ \E r \in Runs : RunStep(r)

SpecConcurrent == Init /\ [][NextConcurrent]_vars

\* Both runs are over, and no call of either was rejected.
BothAnswered == \A r \in Runs : Finished(r) /\ NoRejection(r)

\* The step applies the reposition of run r.
MoveApplied(r) == pc[r] = "moveWait" /\ result'[r] = "success"

\* The step applies the set-status of run r.
SetStatusApplied(r) == pc[r] = "setWait" /\ pc'[r] = "moveCall"

\* C16: two runs for different issues of one board, none of whose calls is
\* rejected, both end in success with each item holding its run's target
\* status; the board changes only when a reposition is applied and then has
\* that run's item at its head, so the head is the item repositioned last; and
\* an item's status changes only by the set-status of its own run.
C16_Concurrent ==
    /\ [](BothAnswered =>
             \A r \in Runs :
                 /\ result[r] = "success"
                 /\ Found(r)
                 /\ status[loc[r].projectItem.id] = loc[r].statusName)
    /\ [][ /\ \A r \in Runs :
                 MoveApplied(r) => Head(board'[loc[r].projectId]) = loc[r].projectItem.id
           /\ board' # board => \E r \in Runs : MoveApplied(r)
           /\ \A i \in Items :
                 status'[i] # status[i] =>
                     \E r \in Runs : SetStatusApplied(r) /\ loc[r].projectItem.id = i
         ]_vars

(***************************************************************************)
(* C17: termination.  The specification with fairness: a continuation that *)
(* can run does run (the event loop), and every call is answered or        *)
(* rejected (the promise of octokit.graphql settles).                       *)
(***************************************************************************)

FairSpec == Spec /\ WF_vars(Next)

\* The places of a run, in the order of the code.
PcOrder ==
    << "idle", "index", "run", "orgCall", "orgWait", "userCall", "userWait",
       "locateCall", "locateWait", "fieldCall", "fieldWait", "setCall", "setWait",
       "moveCall", "moveWait", "done" >>

Rank(l) == CHOOSE i \in 1..Len(PcOrder) : PcOrder[i] = l

\* The shapes of remote call a run can issue.
CallShapes == {"org", "user", "locate", "field", "setStatus", "moveToTop"}

\* C17: every triggered run ends, in success or in failure; a run only moves
\* forward through its places, never back to one it has left; and it issues
\* each shape of call at most once, so at most six calls in all.
C17_Terminates ==
    /\ [](\A r \in Runs :
             /\ \A op \in CallShapes : Count(r, op) <= 1
             /\ Len(Ops(r)) <= Cardinality(CallShapes)
             /\ \A i \in 1..Len(Ops(r)) : Ops(r)[i] \in CallShapes)
    /\ [][\A r \in Runs : pc'[r] # pc[r] => Rank(pc'[r]) > Rank(pc[r])]_vars
    /\ \A r \in Solo :
          (pc[r] = "index") ~> (pc[r] = "done" /\ result[r] \in {"success", "failed"})

\* A run that ended in success having issued all six shapes of call.
C17_Witness ==
    \E r \in Runs :
        /\ pc[r] = "done"
        /\ result[r] = "success"
        /\ Ops(r) = << "org", "user", "locate", "field", "setStatus", "moveToTop" >>

(***************************************************************************)
(* C18: a membership beyond the first page.                                *)
(***************************************************************************)

\* On the remote the issue of the run is linked to the resolved project, and
\* that membership is not among the first PageSize of the issue's memberships.
LinkedBeyondPage(r) ==
    LET all == ProjectItemsOf(env[r].nodeId)
    IN  /\ loc[r].projectId # NULL
        /\ \E k \in 1..Len(all) : k > PageSize /\ all[k].project = loc[r].projectId
        /\ \A k \in 1..Len(all) : k <= PageSize => all[k].project # loc[r].projectId

\* C18: a run whose issue is linked to the resolved project only beyond the
\* first ten memberships never issues a status resolution, a set-status or a
\* reposition, and once the item locator has answered, the run holds no item
\* and has ended in success.
C18_BeyondFirstPage ==
    \A r \in Runs :
        LinkedBeyondPage(r) =>
            /\ Count(r, "field") = 0
            /\ NoMutation(r)
            /\ ResolvedCall(r, "locate") =>
                  /\ loc[r].projectItem = NoItem
                  /\ pc[r] = "done"
                  /\ result[r] = "success"
                  /\ LastOp(r) = "locate"

C18_Witness ==
    \E r \in Runs :
        /\ env[r].nodeId = "I_many"
        /\ loc[r].projectId = "PVT_1"
        /\ LinkedBeyondPage(r)
        /\ ProjectOfItem("PVTI_m1") = loc[r].projectId
        /\ ResolvedCall(r, "locate")
        /\ result[r] = "success"

(***************************************************************************)
(* C19: the organization lookup comes first and wins.                      *)
(***************************************************************************)

\* C19: the first call of every run is the organization query, and whenever
\* that query has been answered with a project id, this id is the project id
\* the run holds and uses, and the user query is never issued.
C19_OrgFirst ==
    \A r \in Runs :
        /\ Len(Ops(r)) > 0 => Ops(r)[1] = "org"
        /\ \A e \in OrgAnswer(r) :
              (e.ok /\ ~Falsy(e.id)) =>
                  /\ loc[r].projectId = e.id
                  /\ Count(r, "user") = 0
                  /\ \A i \in 1..Len(log[r]) :
                        log[r][i].req.op \in {"field", "setStatus", "moveToTop"} =>
                            log[r][i].req.projectId = e.id

C19_Witness ==
    \E r \in Runs :
        /\ \E e \in OrgAnswer(r) : e.ok /\ e.id = "PVT_1"
        /\ loc[r].projectId = "PVT_1"
        /\ Finished(r)
        /\ Count(r, "moveToTop") = 1
        /\ Count(r, "user") = 0

(***************************************************************************)
(* C20: which errors the two lookups swallow.                              *)
(***************************************************************************)

\* The error carries an errors list with at least one entry of type NOT_FOUND.
CarriesNotFound(e) == e.hasErrors /\ \E i \in 1..Len(e.types) : e.types[i] = "NOT_FOUND"

\* The rejection e.error of the run's call of `op` was rethrown unchanged: the
\* run has failed with that very error, and the call is the run's last.
Rethrown(r, e, op) ==
    /\ result[r] = "failed"
    /\ failure[r] = e.error
    /\ LastOp(r) = op
    /\ log[r][Len(log[r])] = e

\* C20: a rejection of the organization query that carries a NOT_FOUND entry
\* is swallowed (the run goes on to the user query instead of ending there);
\* a rejection of the user query that carries one is swallowed too (the run
\* fails with the not-found Error of fetchProjectId instead); a rejection of
\* either query without an errors list, or with entries of other types only,
\* is rethrown unchanged, and no call follows it.
C20_SwallowIffNotFound ==
    \A r \in Runs :
        /\ \A e \in OrgAnswer(r) :
              ~e.ok =>
                  IF CarriesNotFound(e.error)
                  THEN pc[r] = "userCall" \/ Count(r, "user") = 1
                  ELSE /\ Rethrown(r, e, "org")
                       /\ Count(r, "user") = 0
        /\ \A e \in UserAnswer(r) :
              ~e.ok =>
                  IF CarriesNotFound(e.error)
                  THEN /\ result[r] = "failed"
                       /\ failure[r].kind = "Error"
                       /\ failure[r].message =
                             NotFoundMessage(loc[r].projectNumber, loc[r].organization)
                       /\ LastOp(r) = "user"
                  ELSE Rethrown(r, e, "user")

\* The organization query was rejected with a list whose second entry is
\* NOT_FOUND and swallowed; the user query was rejected without an errors list
\* and rethrown.
C20_Witness ==
    \E r \in Runs :
        /\ \E e \in OrgAnswer(r) : ~e.ok /\ e.error = RemoteError(TRUE, << "FORBIDDEN", "NOT_FOUND" >>)
        /\ \E e \in UserAnswer(r) : ~e.ok /\ e.error = RemoteError(FALSE, << >>)
        /\ result[r] = "failed"
        /\ failure[r] = RemoteError(FALSE, << >>)

====
